---- MODULE Spec2Model ----
(***************************************************************************)
(* Space Invaders (pygame): the per-frame step SpaceInvadersGame.play_step *)
(* and the sprite classes it drives, from                                  *)
(* src/src/space_invaders_package/source/classes.py.                       *)
(*                                                                         *)
(* One action, PlayStep, is one call of play_step by the loop of main.py.  *)
(* Its inputs are the keys held down, the clock readings and the alien     *)
(* that random.choice picks.                                               *)
(*                                                                         *)
(* Rectangles are pygame Rects: x, y is the top left corner, the sizes are *)
(* those of the sprite images.  The images are assets that are not part of *)
(* the source files, so Img fixes sizes for them and takes every pixel as  *)
(* opaque (mask overlap = rectangle overlap).  The play field (screen      *)
(* size, alien grid, oscillation limit) and the length of the explosion    *)
(* animation are reduced (Field) so that whole games fit in the state      *)
(* space; the operators that read them take them as parameters.  Speeds,   *)
(* cooldowns, health and the countdown keep the values of constants.py.    *)
(* An explosion's rectangle is left out: nothing reads it.                 *)
(*                                                                         *)
(* The clock is pygame.time.get_ticks(), in milliseconds.  The code only   *)
(* ever compares differences "reading - timestamp > K", so after every     *)
(* step the model (Rebase) caps the age of each timestamp just above its   *)
(* K and moves the origin of the clock once it passes Horizon; this keeps  *)
(* every comparison the code makes and makes the state space finite.       *)
(***************************************************************************)
EXTENDS Integers, Sequences, FiniteSets, TLC

VARIABLES
    now,                \* pygame.time.get_ticks() at the end of the last step
    pc,                 \* "run": main.py keeps calling play_step; "over": it
                        \* returned True; "crashed": it raised
    countdown,          \* SpaceInvadersGame.countdown
    game_over,          \* SpaceInvadersGame.game_over
    end_timer,          \* SpaceInvadersGame.end_timer
    last_count,         \* SpaceInvadersGame.last_count
    last_alien_shot,    \* SpaceInvadersGame.last_alien_shot
    ending_music,       \* SpaceInvadersGame.ending_music
    spaceship,          \* the Spaceship object (rect, health, last_shot, flag)
    spaceship_group,    \* GroupSingle: {} or {"spaceship"}
    bullet_group,       \* player bullets, in insertion order
    alien_group,        \* aliens, in insertion order
    alien_bullet_group, \* alien bullets, in insertion order
    explosion_group,    \* explosions, in insertion order
    obs                 \* what the last play_step did (observation only)

vars == <<now, pc, countdown, game_over, end_timer, last_count, last_alien_shot,
          ending_music, spaceship, spaceship_group, bullet_group, alien_group,
          alien_bullet_group, explosion_group, obs>>

---------------------------------------------------------------------------
(* constants.py *)
PLAYER_COOLDOWN == 300
PLAYER_START_HEALTH == 3
PLAYER_SPEED == 5
PLAYER_BULLET_SPEED == 5
ENEMY_BULLET_SPEED == 4
ALIEN_COOLDOWN == 1000
GAME_COOLDOWN == 5

(* literals of classes.py *)
SHIP_HEALTH == 3          \* Spaceship(..., 3, ...) in __init__
COUNT_INTERVAL == 1000    \* count_timer - last_count > 1000
END_DELAY == 3000         \* get_ticks() - end_timer > 3000
OFF_SCREEN == 10          \* y < -10, bottom > SCREEN_HEIGHT + 10

(* the reduced play field *)
Field == [width |-> 20,       \* for SCREEN_WIDTH = 600
          height |-> 15,      \* for SCREEN_HEIGHT = 800
          rows |-> 1,         \* for ROW_OF_ENEMIES = 5
          cols |-> 2,         \* for COLUMN_OF_ENEMIES = 5
          x0 |-> 7,           \* for the first 100 of 100 + item * 100
          dx |-> 6,           \* for the second 100 of 100 + item * 100
          y0 |-> 4,           \* for the 100 of 100 + row * 70
          dy |-> 4,           \* for the 70 of 100 + row * 70
          limit |-> 0,        \* for the 75 of abs(self.move_counter) > 75
          speed |-> 1,        \* for EXPLOSION_SPEED = 3
          images |-> 2]       \* for the 5 images of range(1, 6)

(* the play field of constants.py and classes.py *)
Screen == [width |-> 600,     \* SCREEN_WIDTH
           height |-> 800,    \* SCREEN_HEIGHT
           rows |-> 5,        \* ROW_OF_ENEMIES
           cols |-> 5,        \* COLUMN_OF_ENEMIES
           x0 |-> 100,        \* 100 + item * 100
           dx |-> 100,
           y0 |-> 100,        \* 100 + row * 70
           dy |-> 70,
           limit |-> 75,      \* abs(self.move_counter) > 75
           speed |-> 3,       \* EXPLOSION_SPEED
           images |-> 5]      \* range(1, 6)

(* sizes of the sprite images: <<width, height>> *)
Img == [spaceship |-> <<10, 4>>, bullet |-> <<2, 2>>,
        alien |-> <<6, 4>>, alien_bullet |-> <<2, 2>>]

(* bounds on the inputs *)
MaxBullets == 1           \* player bullets in flight
MaxAlienBullets == 2      \* alien bullets in flight
MaxExplosions == 2        \* explosions animated at once in ExplosionSpec
SwarmRows == 1            \* rows and columns of the grid of SwarmSpec
SwarmCols == 3
Horizon == 7500           \* the clock's origin moves beyond this reading
Slack == 1                \* ages are capped at K + Slack
StartTicks == {0}             \* get_ticks() when the game is constructed
\* <<d, e>>: the clock's advance up to a step's first reading, and between
\* its readings
Delays == {<<0, 0>>, <<1200, 0>>, <<0, 1200>>}
KeySets == {{}, {"LEFT"}, {"RIGHT"}, {"SPACE"}}   \* keys held during a step

Max(a, b) == IF a > b THEN a ELSE b

---------------------------------------------------------------------------
(* pygame.Rect *)
W(kind) == Img[kind][1]
H(kind) == Img[kind][2]
Left(s) == s.x
Right(s, kind) == s.x + W(kind)
Top(s) == s.y
Bottom(s, kind) == s.y + H(kind)
CenterX(s, kind) == s.x + (W(kind) \div 2)
CenterY(s, kind) == s.y + (H(kind) \div 2)
\* rect.center = (cx, cy)
AtCenter(cx, cy, kind) == [x |-> cx - (W(kind) \div 2), y |-> cy - (H(kind) \div 2)]

\* pygame.Rect.colliderect, which spritecollide uses
CollideRect(a, ka, b, kb) ==
    /\ a.x < b.x + W(kb)
    /\ b.x < a.x + W(ka)
    /\ a.y < b.y + H(kb)
    /\ b.y < a.y + H(ka)

RECURSIVE SelectSeqIdx(_, _, _)
\* the elements of s whose index is not in the set drop, from index i on
SelectSeqIdx(s, drop, i) ==
    IF i > Len(s) THEN <<>>
    ELSE (IF i \in drop THEN <<>> ELSE <<s[i]>>) \o SelectSeqIdx(s, drop, i + 1)

---------------------------------------------------------------------------
(* Explosion *)
NewExplosion(size) == [size |-> size, index |-> 0, counter |-> 0]

\* Explosion.update, with EXPLOSION_SPEED and len(self.images) as parameters:
\* the sprite after the update and whether it stays in its group
ExplosionUpdate_KillLate(e, speed, images) ==
    LET c1 == e.counter + 1
        adv == c1 >= speed /\ e.index < images - 1
        c2 == IF adv THEN 0 ELSE c1
        i2 == IF adv THEN e.index + 1 ELSE e.index
    IN  [sprite |-> [e EXCEPT !.counter = c2, !.index = i2],
         in_group |-> ~(i2 >= images - 1 /\ c2 > speed)]

ExplosionUpdate(e, speed, images) ==
    LET c1 == e.counter + 1
        adv == c1 >= speed /\ e.index < images - 1
        c2 == IF adv THEN 0 ELSE c1
        i2 == IF adv THEN e.index + 1 ELSE e.index
    IN  [sprite |-> [e EXCEPT !.counter = c2, !.index = i2],
         in_group |-> ~(i2 >= images - 1 /\ c2 >= speed)]

\* explosion_group.update(): every member updated, the killed ones dropped
RECURSIVE ExplosionGroupUpdate(_, _, _)
ExplosionGroupUpdate(g, speed, images) ==
    IF g = <<>> THEN <<>>
    ELSE LET r == ExplosionUpdate(Head(g), speed, images)
         IN  (IF r.in_group THEN <<r.sprite>> ELSE <<>>)
                 \o ExplosionGroupUpdate(Tail(g), speed, images)

---------------------------------------------------------------------------
(* Alien *)
NewAlien(cx, cy) ==
    [x |-> AtCenter(cx, cy, "alien").x, y |-> AtCenter(cx, cy, "alien").y,
     move_counter |-> 0, move_direction |-> 1]

Abs(n) == IF n < 0 THEN -n ELSE n

\* an alien that turns one update later
AlienMovement_TurnsLate(a, limit) ==
    LET c1 == a.move_counter + 1
        flip == Abs(c1) > limit + 1
        d2 == IF flip THEN -a.move_direction ELSE a.move_direction
    IN  [a EXCEPT !.x = a.x + a.move_direction,
                  !.move_direction = d2,
                  !.move_counter = IF flip THEN c1 * d2 ELSE c1]

\* Alien._movement, with the limit (75 in the code) as a parameter
AlienMovement(a, limit) ==
    LET c1 == a.move_counter + 1
        flip == Abs(c1) > limit
        d2 == IF flip THEN -a.move_direction ELSE a.move_direction
    IN  [a EXCEPT !.x = a.x + a.move_direction,
                  !.move_direction = d2,
                  !.move_counter = IF flip THEN c1 * d2 ELSE c1]

RECURSIVE SpawnRow(_, _, _, _, _, _)
SpawnRow(row, item, cols, x0, dx, cy) ==
    IF item >= cols THEN <<>>
    ELSE <<NewAlien(x0 + item * dx, cy)>> \o SpawnRow(row, item + 1, cols, x0, dx, cy)

\* a grid whose outer loop runs once
SpawnAliens_OneRow(row, rows, cols, x0, dx, y0, dy) ==
    SpawnRow(row, 0, cols, x0, dx, y0 + row * dy)

RECURSIVE SpawnAliens(_, _, _, _, _, _, _)
\* SpaceInvadersGame._spawn_aliens, with the grid as parameters
SpawnAliens(row, rows, cols, x0, dx, y0, dy) ==
    IF row >= rows THEN <<>>
    ELSE SpawnRow(row, 0, cols, x0, dx, y0 + row * dy)
         \o SpawnAliens(row + 1, rows, cols, x0, dx, y0, dy)

\* a wave that comes back once it is cleared
AlienGroupUpdate_Respawn(g, limit) ==
    IF g = <<>>
    THEN SpawnAliens(0, Field.rows, Field.cols, Field.x0, Field.dx, Field.y0, Field.dy)
    ELSE [i \in 1..Len(g) |-> AlienMovement(g[i], limit)]

\* alien_group.update(): every alien of the group moves
AlienGroupUpdate(g, limit) == [i \in 1..Len(g) |-> AlienMovement(g[i], limit)]

---------------------------------------------------------------------------
(* Bullet (player) *)

\* the indexes of the aliens of g that the bullet's rectangle overlaps
Overlapped(b, g) == {i \in 1..Len(g) : CollideRect(b, "bullet", g[i], "alien")}

\* the sizes of the explosions that after holds beyond those of before
Spawned(before, after) ==
    [i \in 1..(Len(after) - Len(before)) |-> after[Len(before) + i].size]

\* a bullet that is never killed for leaving the screen
BulletUpdate_NeverOff(b, aliens, explosions) ==
    LET b1 == [b EXCEPT !.y = b.y - PLAYER_BULLET_SPEED]
        hit == Overlapped(b1, aliens)
    IN  [sprite |-> b1,
         in_group |-> hit = {},
         alien_group |-> SelectSeqIdx(aliens, hit, 1),
         explosion_group |-> IF hit # {} THEN Append(explosions, NewExplosion(2))
                             ELSE explosions]

\* Bullet.update = _movement; _collision.  in_group: the bullet is still in
\* bullet_group afterwards.
BulletUpdate(b, aliens, explosions) ==
    LET b1 == [b EXCEPT !.y = b.y - PLAYER_BULLET_SPEED]
        off == b1.y < -OFF_SCREEN
        hit == Overlapped(b1, aliens)
        \* spritecollide(self, self.alien_group, True): every alien that
        \* collides is removed, and the list of them is returned
        collided == hit # {}
    IN  [sprite |-> b1,
         in_group |-> ~off /\ ~collided,
         alien_group |-> SelectSeqIdx(aliens, hit, 1),
         explosion_group |-> IF collided THEN Append(explosions, NewExplosion(2))
                             ELSE explosions]

\* what the update r of bullet b did to the groups it was given
BulletLog(b, aliens, explosions, r) ==
    [overlapped |-> Cardinality(Overlapped(r.sprite, aliens)),
     aliens_removed |-> Len(aliens) - Len(r.alien_group),
     bullet_removed |-> ~r.in_group,
     spawned |-> Spawned(explosions, r.explosion_group)]

\* the update of bullet b on the groups that acc carries
BulletGroupStep(b, acc) ==
    LET r == BulletUpdate(b, acc.alien_group, acc.explosion_group)
    IN  [bullet_group |-> IF r.in_group THEN Append(acc.bullet_group, r.sprite)
                          ELSE acc.bullet_group,
         alien_group |-> r.alien_group,
         explosion_group |-> r.explosion_group,
         log |-> acc.log \cup {BulletLog(b, acc.alien_group, acc.explosion_group, r)}]

RECURSIVE BulletGroupUpdate(_, _)
\* bullet_group.update(): every bullet of the group, in order
BulletGroupUpdate(todo, acc) ==
    IF todo = <<>> THEN acc
    ELSE CHOOSE done \in {BulletGroupUpdate(Tail(todo), next) :
                             next \in {BulletGroupStep(Head(todo), acc)}} : TRUE

---------------------------------------------------------------------------
(* AlienBullet *)

\* pygame.sprite.collide_mask on fully opaque images
CollideMask(b, ship) == CollideRect(b, "alien_bullet", ship, "spaceship")

\* a hit that costs two points of health
Damage_Double(ship) == [ship EXCEPT !.health_remaining = @ - 2]

\* line 404: spaceship.health_remaining -= 1
Damage(ship) == [ship EXCEPT !.health_remaining = @ - 1]

\* AlienBullet.update = _movement; _collision, with SCREEN_HEIGHT as a
\* parameter
AlienBulletUpdate(b, ship, group, explosions, height) ==
    LET b1 == [b EXCEPT !.y = b.y + ENEMY_BULLET_SPEED]
        off == Bottom(b1, "alien_bullet") > height + OFF_SCREEN
        overlap == CollideMask(b1, ship)
        \* spritecollide(self, self.spaceship_group, False, collide_mask)
        collided == group # {} /\ overlap
    IN  [sprite |-> b1,
         in_group |-> ~off /\ ~collided,
         spaceship |-> IF collided THEN Damage(ship) ELSE ship,
         explosion_group |-> IF collided THEN Append(explosions, NewExplosion(1))
                             ELSE explosions]

\* what the update r of alien bullet b did to the ship and the groups it
\* was given
AlienBulletLog(b, ship, group, explosions, r) ==
    [overlap |-> CollideMask(r.sprite, ship),
     ship_in_group |-> group # {},
     health_change |-> r.spaceship.health_remaining - ship.health_remaining,
     bullet_removed |-> ~r.in_group,
     spawned |-> Spawned(explosions, r.explosion_group)]

\* the update of alien bullet b on the ship and the groups that acc carries
AlienBulletGroupStep(b, group, acc, height) ==
    LET r == AlienBulletUpdate(b, acc.spaceship, group, acc.explosion_group, height)
    IN  [alien_bullet_group |-> IF r.in_group
                                THEN Append(acc.alien_bullet_group, r.sprite)
                                ELSE acc.alien_bullet_group,
         spaceship |-> r.spaceship,
         explosion_group |-> r.explosion_group,
         log |-> acc.log \cup {AlienBulletLog(b, acc.spaceship, group,
                                              acc.explosion_group, r)}]

RECURSIVE AlienBulletGroupUpdate(_, _, _, _)
\* alien_bullet_group.update(): every alien bullet of the group, in order
AlienBulletGroupUpdate(todo, group, acc, height) ==
    IF todo = <<>> THEN acc
    ELSE CHOOSE done \in {AlienBulletGroupUpdate(Tail(todo), group, next, height) :
                             next \in {AlienBulletGroupStep(Head(todo), group, acc,
                                                            height)}} : TRUE

---------------------------------------------------------------------------
(* Spaceship *)
NewSpaceship_TopLeft(cx, cy, health, t) ==
    [x |-> cx, y |-> cy,
     health_start |-> PLAYER_START_HEALTH, health_remaining |-> health,
     last_shot |-> t, explosion_created |-> FALSE]

NewSpaceship(cx, cy, health, t) ==
    [x |-> AtCenter(cx, cy, "spaceship").x, y |-> AtCenter(cx, cy, "spaceship").y,
     health_start |-> PLAYER_START_HEALTH, health_remaining |-> health,
     last_shot |-> t, explosion_created |-> FALSE]

\* Spaceship._move on rect.x, for a sprite w wide on a screen width wide
MoveX(x, w, keys, width) ==
    LET x1 == IF "LEFT" \in keys /\ x > 0 THEN x - PLAYER_SPEED ELSE x
    IN  IF "RIGHT" \in keys /\ x1 + w < width THEN x1 + PLAYER_SPEED ELSE x1

\* Spaceship._move, with the screen width as a parameter
ShipMove(s, keys, width) ==
    [s EXCEPT !.x = MoveX(s.x, W("spaceship"), keys, width)]

\* a ship that goes on shooting once its health is gone
ShipShoot_Dead(s, keys, t, bullets) ==
    IF "SPACE" \in keys /\ t - s.last_shot > PLAYER_COOLDOWN
    THEN [spaceship |-> [s EXCEPT !.last_shot = t],
          bullet_group |-> Append(bullets,
                                  AtCenter(CenterX(s, "spaceship"), Top(s), "bullet")),
          shot |-> TRUE]
    ELSE [spaceship |-> s, bullet_group |-> bullets, shot |-> FALSE]

\* Spaceship._shoot at clock reading t
ShipShoot(s, keys, t, bullets) ==
    IF "SPACE" \in keys /\ t - s.last_shot > PLAYER_COOLDOWN /\ s.health_remaining > 0
    THEN [spaceship |-> [s EXCEPT !.last_shot = t],
          bullet_group |-> Append(bullets,
                                  AtCenter(CenterX(s, "spaceship"), Top(s), "bullet")),
          shot |-> TRUE]
    ELSE [spaceship |-> s, bullet_group |-> bullets, shot |-> FALSE]

\* Spaceship._update_health_bar (the drawing left out)
ShipUpdateHealthBar_EveryFrame(s, group, explosions) ==
    IF s.health_remaining > 0
    THEN [spaceship |-> s, spaceship_group |-> group, explosion_group |-> explosions,
          spawned |-> <<>>]
    ELSE [spaceship |-> [s EXCEPT !.explosion_created = TRUE],
          spaceship_group |-> {},
          explosion_group |-> Append(explosions, NewExplosion(3)),
          spawned |-> <<3>>]

ShipUpdateHealthBar(s, group, explosions) ==
    IF s.health_remaining > 0
    THEN [spaceship |-> s, spaceship_group |-> group, explosion_group |-> explosions,
          spawned |-> <<>>]
    ELSE [spaceship |-> [s EXCEPT !.explosion_created = TRUE],
          spaceship_group |-> {},
          explosion_group |-> IF s.explosion_created THEN explosions
                              ELSE Append(explosions, NewExplosion(3)),
          spawned |-> IF s.explosion_created THEN <<>> ELSE <<3>>]

\* Spaceship.update = _move; _shoot; _update_mask; _update_health_bar
ShipUpdate(s, keys, t, group, bullets, explosions, width) ==
    LET sh == ShipShoot(ShipMove(s, keys, width), keys, t, bullets)
        hb == ShipUpdateHealthBar(sh.spaceship, group, explosions)
    IN  [spaceship |-> hb.spaceship, spaceship_group |-> hb.spaceship_group,
         bullet_group |-> sh.bullet_group, explosion_group |-> hb.explosion_group,
         shot |-> sh.shot, spawned |-> hb.spawned]

---------------------------------------------------------------------------
(* the clock *)

\* a timestamp that is only compared as "reading - ts > k", at reading t:
\* its age is capped at k + Slack, and the origin follows the clock
Base(t) == Max(0, t - Horizon)
Rebase(ts, k, t) == Max(ts, t - (k + Slack)) - Base(t)

\* the age of timestamp ts at reading t, capped the same way
Age(ts, k, t) == IF t - ts > k + Slack THEN k + Slack ELSE t - ts

---------------------------------------------------------------------------
(* SpaceInvadersGame *)

\* aliens that shoot in every frame
AlienShoots_NoCooldown(aliens_left, health, time_now, last) ==
    aliens_left # 0 /\ health # 0

\* line 648: an alien shoots in this step
AlienShoots(aliens_left, health, time_now, last) ==
    aliens_left # 0 /\ health # 0 /\ time_now - last > ALIEN_COOLDOWN

\* the end-of-game delay cut down to the aliens' cooldown
EndDelayOver_Short(t, timer) == t - timer > ALIEN_COOLDOWN

\* line 687: the end-of-game delay has passed at clock reading t
EndDelayOver(t, timer) == t - timer > END_DELAY

\* what a step leaves for observation: the branch taken, the value returned,
\* len(alien_group) at line 638, the outcome of the alien's shot, the
\* messages drawn, the end sound played, what each sprite update did, and
\* whether a step has left no alien or a ship of health 0 (entered), with
\* the clock reading of the first step that did (entry); for the bullets
\* created, how many, the keys held and the time since the last one; and
\* how many times the step called pygame.display.update() (display_updates)
\* and self.clock.tick(FPS) (clock_ticks)
NoObs == [branch |-> "init", ret |-> FALSE, aliens_left |-> 0, fired |-> "no",
          win |-> FALSE, loss |-> FALSE, sound |-> "none", shot |-> FALSE,
          call_advance |-> 0, bullet_log |-> {}, alien_bullet_log |-> {},
          ship_spawned |-> <<>>, entered |-> FALSE, entry |-> 0,
          bullets_created |-> 0, shot_keys |-> {}, player_gap |-> 0,
          alien_bullets_created |-> 0, alien_gap |-> 0,
          display_updates |-> 0, clock_ticks |-> 0]

\* the game variables and groups of SpaceInvadersGame.__init__, at a clock
\* reading of StartTicks, around the given ship, aliens and explosions
Started(ship, aliens, explosions, seen) ==
    /\ now \in StartTicks
    /\ pc = "run"
    /\ countdown = GAME_COOLDOWN
    /\ game_over = 0
    /\ end_timer = 0
    /\ last_count = now
    /\ last_alien_shot = now
    /\ ending_music = TRUE
    /\ spaceship = ship
    /\ spaceship_group = {"spaceship"}
    /\ bullet_group = <<>>
    /\ alien_group = aliens
    /\ alien_bullet_group = <<>>
    /\ explosion_group = explosions
    /\ obs = seen

\* SpaceInvadersGame.__init__ on the play field f
Construct(f) ==
    Started(NewSpaceship(f.width \div 2, (f.height * 4) \div 5, SHIP_HEALTH, now),
            SpawnAliens(0, f.rows, f.cols, f.x0, f.dx, f.y0, f.dy), <<>>, NoObs)

Init == Construct(Field)

\* a countdown that loses one in every frame that the clock has moved
CountElapsed_AnyTick(count_timer, last) == count_timer - last > 0

\* line 707: a second has passed since the countdown last changed
CountElapsed(count_timer, last) == count_timer - last > COUNT_INTERVAL

\* a countdown that also restarts the alien cooldown
CountdownStep_RestartsCooldown(t1, t2, explosions) ==
    LET dec == CountElapsed(t1, last_count)
    IN  /\ countdown' = IF dec THEN countdown - 1 ELSE countdown
        /\ last_count' = Rebase(IF dec THEN t1 ELSE last_count, COUNT_INTERVAL, t2)
        /\ end_timer' = Rebase(t2, END_DELAY, t2)
        /\ last_alien_shot' = Rebase(t1, ALIEN_COOLDOWN, t2)
        /\ spaceship' = [spaceship EXCEPT
                            !.last_shot = Rebase(@, PLAYER_COOLDOWN, t2)]
        /\ explosion_group' = explosions
        /\ now' = t2 - Base(t2)
        /\ pc' = "run"
        \* lines 712, 713
        /\ obs' = [NoObs EXCEPT !.branch = "countdown",
                                !.display_updates = 1, !.clock_ticks = 1]
        /\ UNCHANGED <<game_over, ending_music, spaceship_group, bullet_group,
                       alien_group, alien_bullet_group>>

\* play_step while countdown > 0 (lines 691-715); t1, t2 are the clock
\* readings of lines 706 and 711
CountdownStep(t1, t2, explosions) ==
    LET dec == CountElapsed(t1, last_count)
    IN  /\ countdown' = IF dec THEN countdown - 1 ELSE countdown
        /\ last_count' = Rebase(IF dec THEN t1 ELSE last_count, COUNT_INTERVAL, t2)
        /\ end_timer' = Rebase(t2, END_DELAY, t2)
        /\ last_alien_shot' = Rebase(last_alien_shot, ALIEN_COOLDOWN, t2)
        /\ spaceship' = [spaceship EXCEPT
                            !.last_shot = Rebase(@, PLAYER_COOLDOWN, t2)]
        /\ explosion_group' = explosions
        /\ now' = t2 - Base(t2)
        /\ pc' = "run"
        \* lines 712, 713
        /\ obs' = [NoObs EXCEPT !.branch = "countdown",
                                !.display_updates = 1, !.clock_ticks = 1]
        /\ UNCHANGED <<game_over, ending_music, spaceship_group, bullet_group,
                       alien_group, alien_bullet_group>>

\* an alien count that is taken after the sprite updates
AliensLeft_AfterUpdates(before, after) == Len(after)

\* line 638: aliens_left = len(self.alien_group), taken of the group as it
\* is before the sprite updates of lines 641-644 (after: the group after them)
AliensLeft(before, after) == Len(before)

\* lines 661-664 and 674-677: the end sound a step plays that draws YOU WIN!
\* (win) or GAME OVER! (loss) with ending_music = music
EndSound(win, loss, music) ==
    IF win /\ music THEN "win" ELSE IF loss /\ music THEN "loss" ELSE "none"

\* an ending_music flag that is never cleared
MusicAfter_NeverCleared(win, loss, music) == music

\* ending_music after that step
MusicAfter(win, loss, music) == music /\ ~win /\ ~loss

\* play_step while countdown = 0 (lines 637-690, 711-715); t1 is the clock
\* reading of _shoot and of line 647, t2 that of lines 687 and 711
\* (\E x \in {v} names the value v, computed once)
GameStep(f, keys, t1, t2, explosions) ==
    \E su \in {ShipUpdate(spaceship, keys, t1, spaceship_group, bullet_group,
                          explosions, f.width)} :
    \E bu \in {BulletGroupUpdate(su.bullet_group,
                  [bullet_group |-> <<>>, alien_group |-> alien_group,
                   explosion_group |-> su.explosion_group, log |-> {}])} :
    \E au \in {AlienBulletGroupUpdate(alien_bullet_group, su.spaceship_group,
                  [alien_bullet_group |-> <<>>, spaceship |-> su.spaceship,
                   explosion_group |-> bu.explosion_group, log |-> {}],
                  f.height)} :
    \E aliens \in {AlienGroupUpdate(bu.alien_group, f.limit)} :
    LET aliens_left == AliensLeft(alien_group, aliens)
        health == au.spaceship.health_remaining
        fire == AlienShoots(aliens_left, health, t1, last_alien_shot)
        win == ~fire /\ aliens_left = 0
        loss == ~fire /\ health = 0
        sound == EndSound(win, loss, ending_music)
        ret == ~fire /\ EndDelayOver(t2, end_timer)
        seen == [branch |-> "play", ret |-> ret, aliens_left |-> aliens_left,
                 fired |-> "no", win |-> win, loss |-> loss, sound |-> sound,
                 shot |-> su.shot,
                 call_advance |-> IF ret THEN t2 - t1 ELSE 0,
                 bullet_log |-> bu.log, alien_bullet_log |-> au.log,
                 ship_spawned |-> su.spawned,
                 bullets_created |-> Len(su.bullet_group) - Len(bullet_group),
                 shot_keys |-> IF su.shot THEN keys ELSE {},
                 player_gap |-> IF su.shot
                                THEN Age(spaceship.last_shot, PLAYER_COOLDOWN, t1)
                                ELSE 0,
                 alien_bullets_created |-> 0, alien_gap |-> 0,
                 \* line 686, then the return of line 688 or 690
                 display_updates |-> 1, clock_ticks |-> 0,
                 entered |-> obs.entered \/ aliens = <<>> \/ health = 0,
                 entry |-> IF obs.entered THEN Rebase(obs.entry, END_DELAY, t2)
                           ELSE IF aliens = <<>> \/ health = 0
                           THEN t2 - Base(t2) ELSE 0]
    IN  /\ spaceship' = [au.spaceship EXCEPT
                            !.last_shot = Rebase(@, PLAYER_COOLDOWN, t2)]
        /\ spaceship_group' = su.spaceship_group
        /\ bullet_group' = bu.bullet_group
        /\ explosion_group' = au.explosion_group
        /\ alien_group' = aliens
        /\ last_count' = Rebase(last_count, COUNT_INTERVAL, t2)
        /\ now' = t2 - Base(t2)
        /\ UNCHANGED <<countdown, game_over>>
        /\ IF fire
           THEN /\ ending_music' = ending_music
                /\ IF aliens = <<>>
                   THEN \* choice([]) raises IndexError
                        /\ pc' = "crashed"
                        /\ alien_bullet_group' = au.alien_bullet_group
                        /\ last_alien_shot' = Rebase(last_alien_shot, ALIEN_COOLDOWN, t2)
                        /\ end_timer' = Rebase(end_timer, END_DELAY, t2)
                        /\ obs' = [seen EXCEPT !.fired = "IndexError",
                                               !.display_updates = 0]
                   ELSE \E k \in 1..Len(aliens) :
                        LET attacking_alien == aliens[k]
                        IN  /\ pc' = "run"
                            /\ alien_bullet_group' =
                                 Append(au.alien_bullet_group,
                                        AtCenter(CenterX(attacking_alien, "alien"),
                                                 Bottom(attacking_alien, "alien"),
                                                 "alien_bullet"))
                            /\ last_alien_shot' = Rebase(t1, ALIEN_COOLDOWN, t2)
                            /\ end_timer' = Rebase(t2, END_DELAY, t2)
                            /\ obs' = [seen EXCEPT
                                        !.fired = "yes",
                                        \* lines 712, 713
                                        !.display_updates = 1,
                                        !.clock_ticks = 1,
                                        !.alien_bullets_created =
                                            Len(alien_bullet_group')
                                                - Len(au.alien_bullet_group),
                                        !.alien_gap =
                                            Age(last_alien_shot, ALIEN_COOLDOWN, t1)]
           ELSE /\ ending_music' = MusicAfter(win, loss, ending_music)
                /\ alien_bullet_group' = au.alien_bullet_group
                /\ last_alien_shot' = Rebase(last_alien_shot, ALIEN_COOLDOWN, t2)
                /\ end_timer' = Rebase(end_timer, END_DELAY, t2)
                /\ pc' = IF ret THEN "over" ELSE "run"
                /\ obs' = seen

\* a play_step that plays whatever the countdown says
PlayStep_NoCountdown(f, keys, d, e) ==
    /\ pc = "run"
    /\ \E explosions \in {ExplosionGroupUpdate(explosion_group, f.speed, f.images)} :
           GameStep(f, keys, now + d, now + d + e, explosions)

\* one call of play_step by the loop of main.py, on the play field f.
\* d: the clock's advance since the last step's last reading; e: its advance
\* between this step's readings.
PlayStep(f, keys, d, e) ==
    /\ pc = "run"
    /\ \E explosions \in {ExplosionGroupUpdate(explosion_group, f.speed, f.images)} :
           IF countdown = 0
           THEN GameStep(f, keys, now + d, now + d + e, explosions)
           ELSE CountdownStep(now + d, now + d + e, explosions)

\* the inputs the model leaves out: those that put more bullets in flight
InBounds ==
    /\ Len(bullet_group) <= MaxBullets
    /\ Len(alien_bullet_group) <= MaxAlienBullets

Next ==
    \E keys \in KeySets, de \in Delays :
        PlayStep(Field, keys, de[1], de[2]) /\ InBounds'

Spec == Init /\ [][Next]_vars

\* the loop of main.py on a clock that advances between any two steps, every
\* step eventually taken, no bound on the bullets in flight
SteadyDelays == {<<1200, 0>>}

FairNext ==
    \E keys \in KeySets, de \in SteadyDelays : PlayStep(Field, keys, de[1], de[2])

FairSpec == Init /\ [][FairNext]_vars /\ WF_vars(FairNext)

\* the countdown on the play field of the code: play_step from construction
\* up to the first play frame, on a clock that moves in finer steps
CountdownDelays == {<<0, 0>>, <<400, 0>>, <<700, 0>>, <<1200, 0>>, <<0, 400>>}

CountdownNext ==
    \E keys \in KeySets, de \in CountdownDelays :
        countdown > 0 /\ PlayStep(Screen, keys, de[1], de[2])

CountdownInit == Construct(Screen)

\* the countdown and the first play frame after it, on the play field of
\* the code
FirstFrameInit == Construct(Screen)

FirstFrameNext ==
    \E keys \in KeySets, de \in CountdownDelays :
        obs.branch # "play" /\ PlayStep(Screen, keys, de[1], de[2])

FirstFrameSpec == FirstFrameInit /\ [][FirstFrameNext]_vars

\* Spaceship._move alone, frame after frame, on the screen of the code, for
\* ship sprites of several widths (obs.w)
ShipWidths == {50, 64, 99}
MoveKeys == {{"LEFT"}, {"RIGHT"}, {"LEFT", "RIGHT"}}

MoveInit ==
    \E w \in ShipWidths :
        Started([NewSpaceship(Screen.width \div 2, (Screen.height * 4) \div 5,
                              SHIP_HEALTH, now)
                    EXCEPT !.x = Screen.width \div 2 - w \div 2],
                <<>>, <<>>, [w |-> w])

MoveNext ==
    \E keys \in MoveKeys :
        /\ spaceship' = [spaceship EXCEPT !.x = MoveX(@, obs.w, keys, Screen.width)]
        /\ UNCHANGED <<now, pc, countdown, game_over, end_timer, last_count,
                       last_alien_shot, ending_music, spaceship_group, bullet_group,
                       alien_group, alien_bullet_group, explosion_group, obs>>

MoveSpec == MoveInit /\ [][MoveNext]_vars

\* Alien.update alone, frame after frame, on the first alien of the grid of
\* the code.  obs follows move_direction as it stands after each update:
\* dir its value, run the number of updates in a row that left it at dir,
\* done the length of the last run that ended (0: none has ended yet)
AlienInit ==
    Started(NewSpaceship(Screen.width \div 2, (Screen.height * 4) \div 5,
                         SHIP_HEALTH, now),
            <<NewAlien(Screen.x0, Screen.y0)>>, <<>>,
            [dir |-> 1, run |-> 0, done |-> 0])

AlienNext ==
    \E a \in {AlienMovement(alien_group[1], Screen.limit)} :
        /\ alien_group' = <<a>>
        /\ obs' = IF a.move_direction = obs.dir
                  THEN [obs EXCEPT !.run = @ + 1]
                  ELSE [dir |-> a.move_direction, run |-> 1, done |-> obs.run]
        /\ UNCHANGED <<now, pc, countdown, game_over, end_timer, last_count,
                       last_alien_shot, ending_music, spaceship, spaceship_group,
                       bullet_group, alien_bullet_group, explosion_group>>

AlienSpec == AlienInit /\ [][AlienNext]_vars

\* Explosions alone, with EXPLOSION_SPEED and the five images of the code:
\* Explosion(x, y, size) is created by a hit, explosion_group.update() runs
\* once per frame.  obs.updates[i] counts the updates explosion_group[i]
\* has had; obs.removed holds the counts at which the last update() killed
SurvivorAges(g, ages, speed, images) ==
    LET kept == {i \in 1..Len(g) : ExplosionUpdate(g[i], speed, images).in_group}
    IN  [i \in 1..Cardinality(kept) |->
            ages[CHOOSE k \in kept : Cardinality({j \in kept : j < k}) = i - 1] + 1]

ExplosionInit ==
    Started(NewSpaceship(Screen.width \div 2, (Screen.height * 4) \div 5,
                         SHIP_HEALTH, now),
            <<>>, <<>>, [updates |-> <<>>, removed |-> {}])

ExplosionSpawn(size) ==
    /\ Len(explosion_group) < MaxExplosions
    /\ explosion_group' = Append(explosion_group, NewExplosion(size))
    /\ obs' = [obs EXCEPT !.updates = Append(@, 0)]
    /\ UNCHANGED <<now, pc, countdown, game_over, end_timer, last_count,
                   last_alien_shot, ending_music, spaceship, spaceship_group,
                   bullet_group, alien_group, alien_bullet_group>>

ExplosionTick ==
    /\ explosion_group # <<>>
    /\ explosion_group' =
           ExplosionGroupUpdate(explosion_group, Screen.speed, Screen.images)
    /\ obs' = [updates |-> SurvivorAges(explosion_group, obs.updates,
                                        Screen.speed, Screen.images),
               removed |-> {obs.updates[i] + 1 : i \in
                             {j \in 1..Len(explosion_group) :
                                ~ExplosionUpdate(explosion_group[j], Screen.speed,
                                                 Screen.images).in_group}}]
    /\ UNCHANGED <<now, pc, countdown, game_over, end_timer, last_count,
                   last_alien_shot, ending_music, spaceship, spaceship_group,
                   bullet_group, alien_group, alien_bullet_group>>

ExplosionNext == (\E size \in 1..3 : ExplosionSpawn(size)) \/ ExplosionTick

ExplosionSpec == ExplosionInit /\ [][ExplosionNext]_vars

\* The aliens alone, a small grid at the spacing and with the turning limit
\* of the code: alien_group.update() once per frame, and any alien may be
\* removed between frames as a player bullet's spritecollide does.
\* obs.spawn[i] is alien_group[i] as _spawn_aliens made it
SwarmInit ==
    \E grid \in {SpawnAliens(0, SwarmRows, SwarmCols, Screen.x0, Screen.dx,
                              Screen.y0, Screen.dy)} :
        Started(NewSpaceship(Screen.width \div 2, (Screen.height * 4) \div 5,
                             SHIP_HEALTH, now),
                grid, <<>>, [spawn |-> grid])

SwarmUpdate ==
    /\ alien_group # <<>>
    /\ alien_group' = AlienGroupUpdate(alien_group, Screen.limit)
    /\ UNCHANGED <<now, pc, countdown, game_over, end_timer, last_count,
                   last_alien_shot, ending_music, spaceship, spaceship_group,
                   bullet_group, alien_bullet_group, explosion_group, obs>>

SwarmKill(k) ==
    /\ k \in 1..Len(alien_group)
    /\ alien_group' = SelectSeqIdx(alien_group, {k}, 1)
    /\ obs' = [spawn |-> SelectSeqIdx(obs.spawn, {k}, 1)]
    /\ UNCHANGED <<now, pc, countdown, game_over, end_timer, last_count,
                   last_alien_shot, ending_music, spaceship, spaceship_group,
                   bullet_group, alien_bullet_group, explosion_group>>

SwarmNext == SwarmUpdate \/ \E k \in 1..Len(alien_group) : SwarmKill(k)

SwarmSpec == SwarmInit /\ [][SwarmNext]_vars

\* Bullets alone on the screen of the code, one in flight at a time, in
\* front of the ship and of two aliens, one of them above the ship: the
\* ship fires, a live alien fires, and the group that holds the bullet is
\* updated frame after frame.  obs keeps the last update: the bullet before
\* and after it and whether it left its group; obs.gone_off tells which
\* kinds of bullet have already been killed for leaving the screen
NoFlight ==
    [kind |-> "none", before |-> [x |-> 0, y |-> 0], after |-> [x |-> 0, y |-> 0],
     removed |-> FALSE, gone_off |-> {}]

BulletInit ==
    Started(NewSpaceship(Screen.width \div 2, (Screen.height * 4) \div 5,
                         SHIP_HEALTH, now),
            <<NewAlien(Screen.x0, Screen.y0), NewAlien(Screen.width \div 2, Screen.y0)>>,
            <<>>, NoFlight)

BulletFire ==
    /\ bullet_group = <<>> /\ alien_bullet_group = <<>>
    /\ spaceship.health_remaining > 0
    /\ bullet_group' = <<AtCenter(CenterX(spaceship, "spaceship"), Top(spaceship),
                                  "bullet")>>
    /\ UNCHANGED <<now, pc, countdown, game_over, end_timer, last_count,
                   last_alien_shot, ending_music, spaceship, spaceship_group,
                   alien_group, alien_bullet_group, explosion_group, obs>>

AlienFire(k) ==
    /\ bullet_group = <<>> /\ alien_bullet_group = <<>>
    /\ spaceship.health_remaining # 0
    /\ k \in 1..Len(alien_group)
    /\ alien_bullet_group' = <<AtCenter(CenterX(alien_group[k], "alien"),
                                        Bottom(alien_group[k], "alien"),
                                        "alien_bullet")>>
    /\ UNCHANGED <<now, pc, countdown, game_over, end_timer, last_count,
                   last_alien_shot, ending_music, spaceship, spaceship_group,
                   alien_group, bullet_group, explosion_group, obs>>

BulletFrame ==
    /\ bullet_group # <<>>
    /\ \E r \in {BulletUpdate(bullet_group[1], alien_group, explosion_group)} :
          /\ bullet_group' = IF r.in_group THEN <<r.sprite>> ELSE <<>>
          /\ alien_group' = r.alien_group
          /\ explosion_group' = r.explosion_group
          /\ obs' = [kind |-> "bullet", before |-> bullet_group[1],
                     after |-> r.sprite, removed |-> ~r.in_group,
                     gone_off |-> IF ~r.in_group /\ Overlapped(r.sprite, alien_group) = {}
                                  THEN obs.gone_off \cup {"bullet"}
                                  ELSE obs.gone_off]
    /\ UNCHANGED <<now, pc, countdown, game_over, end_timer, last_count,
                   last_alien_shot, ending_music, spaceship, spaceship_group,
                   alien_bullet_group>>

AlienBulletFrame ==
    /\ alien_bullet_group # <<>>
    /\ \E r \in {AlienBulletUpdate(alien_bullet_group[1], spaceship, spaceship_group,
                                      explosion_group, Screen.height)} :
          /\ alien_bullet_group' = IF r.in_group THEN <<r.sprite>> ELSE <<>>
          /\ spaceship' = r.spaceship
          /\ explosion_group' = r.explosion_group
          /\ obs' = [kind |-> "alien_bullet", before |-> alien_bullet_group[1],
                     after |-> r.sprite, removed |-> ~r.in_group,
                     gone_off |-> IF ~r.in_group /\ ~CollideMask(r.sprite, spaceship)
                                  THEN obs.gone_off \cup {"alien_bullet"}
                                  ELSE obs.gone_off]
    /\ UNCHANGED <<now, pc, countdown, game_over, end_timer, last_count,
                   last_alien_shot, ending_music, spaceship_group, bullet_group,
                   alien_group>>

BulletNext ==
    \/ BulletFire
    \/ \E k \in 1..Len(alien_group) : AlienFire(k)
    \/ BulletFrame
    \/ AlienBulletFrame

BulletSpec == BulletInit /\ [][BulletNext]_vars

CountdownSpec == CountdownInit /\ [][CountdownNext]_vars

---------------------------------------------------------------------------
(* the properties *)

\* C1: play_step returns True only when the game has ended: in a call that
\* returns True while the clock advances by less than 2000 ms within the
\* call, the countdown is 0 and either the alien group was empty when the
\* call began or the ship's health is 0 (so never during the countdown and
\* never during active play).
C1_TrueOnlyWhenEnded ==
    (obs.ret /\ obs.call_advance < 2000)
        => /\ obs.branch = "play"
           /\ countdown = 0
           /\ obs.aliens_left = 0 \/ spaceship.health_remaining = 0

C1_Witness == obs.ret /\ obs.call_advance > 0 /\ obs.call_advance < 2000

\* C2: once no alien remains or the ship's health is zero, play_step returns
\* False on every step whose clock reading is at most 3000 ms after that of
\* the entry step, and True on the first step whose reading is more than
\* 3000 ms after it.
C2_ExactlyThreeSecondsAfterEntry ==
    (obs.entered /\ pc # "crashed")
        => (obs.ret <=> now - obs.entry > END_DELAY)

\* C3: once the player has destroyed all aliens, or the ship has lost all
\* its health and been destroyed, the steps that the loop goes on to take
\* on an advancing clock eventually return True.
C3_EventuallyReturnsTrue ==
    (/\ pc = "run" /\ countdown = 0
     /\ \/ alien_group = <<>>
        \/ spaceship.health_remaining <= 0 /\ spaceship_group = {})
        ~> obs.ret

\* C4: the ship's health never increases from one step to the next and is
\* never below zero.
C4_HealthNonIncreasingNonNegative ==
    [][/\ spaceship'.health_remaining <= spaceship.health_remaining
       /\ spaceship'.health_remaining >= 0]_vars

\* C5: "YOU WIN!" is drawn only in steps with no alien left and health > 0,
\* "GAME OVER!" is drawn in every play step with health zero, and no step
\* draws both.
C5_ExactlyOneOutcome ==
    /\ obs.win => (obs.aliens_left = 0 /\ spaceship.health_remaining > 0)
    /\ (obs.branch = "play" /\ spaceship.health_remaining = 0) => obs.loss
    /\ ~(obs.win /\ obs.loss)

\* C6: after the step that left no alien or a ship of health zero, no step
\* changes the alien count, the ship's health or position, or the position
\* or membership of any player bullet or alien bullet.
C6_FrozenAfterEnd ==
    [][obs.entered
        => /\ Len(alien_group') = Len(alien_group)
           /\ spaceship'.health_remaining = spaceship.health_remaining
           /\ spaceship'.x = spaceship.x /\ spaceship'.y = spaceship.y
           /\ bullet_group' = bullet_group
           /\ alien_bullet_group' = alien_bullet_group]_vars

\* C7: whenever a step makes an alien fire, the alien group is non-empty at
\* the selection and the new alien bullet is at (centerx, bottom) of an
\* alien live at that moment.
C7_FiringAlienIsLive ==
    obs.fired # "no"
        => /\ obs.fired = "yes"
           /\ \E k \in 1..Len(alien_group) :
                 alien_bullet_group[Len(alien_bullet_group)]
                     = AtCenter(CenterX(alien_group[k], "alien"),
                                Bottom(alien_group[k], "alien"), "alien_bullet")

\* C8: a player bullet's update in which it overlaps alien rectangles
\* removes exactly one alien, removes the bullet and spawns exactly one
\* explosion of size 2.
C8_OneBulletOneAlien ==
    \A r \in obs.bullet_log :
        r.overlapped > 0
            => r.aliens_removed = 1 /\ r.bullet_removed /\ r.spawned = <<2>>

\* C9: an alien bullet's update in which it overlaps the ship, the ship
\* still in its group, takes exactly one from the ship's health, removes
\* that bullet and spawns exactly one explosion of size 1; any other alien
\* bullet's update leaves the health unchanged.
C9_AlienBulletHit ==
    \A r \in obs.alien_bullet_log :
        IF r.overlap /\ r.ship_in_group
        THEN r.health_change = -1 /\ r.bullet_removed /\ r.spawned = <<1>>
        ELSE r.health_change = 0

C9_Witness ==
    \E r \in obs.alien_bullet_log :
        r.overlap /\ r.ship_in_group /\ r.health_change = -1

\* C10: the number of live aliens never increases from one step to the
\* next, and it decreases only in a step where a player bullet that
\* overlaps aliens removes them.
C10_AliensNeverIncrease ==
    [][/\ Len(alien_group') <= Len(alien_group)
       /\ Len(alien_group') < Len(alien_group)
            => \E r \in obs'.bullet_log : r.overlapped > 0 /\ r.aliens_removed > 0]_vars

C10_Witness ==
    /\ Len(alien_group) < obs.aliens_left
    /\ \E r \in obs.bullet_log : r.aliens_removed > 0

\* C11: construction spawns 5 x 5 = 25 aliens at the 25 distinct grid
\* positions (100 + 100 * col, 100 + 70 * row), and exactly these 25 are
\* live up to the start of the first play frame, whatever the countdown's
\* steps were.
C11_Grid ==
    LET centers == {<<CenterX(alien_group[i], "alien"), CenterY(alien_group[i], "alien")>> :
                        i \in 1..Len(alien_group)}
    IN  /\ Len(alien_group) = 25
        /\ Cardinality(centers) = 25
        /\ centers = {<<100 + 100 * col, 100 + 70 * row>> : col \in 0..4, row \in 0..4}

C11_Witness == countdown = 0 /\ Len(alien_group) = 25

\* C12: the countdown starts at 5, stays in 0..5, changes only by losing 1
\* in a step that reads the clock more than 1000 ms after the reading of
\* its last change (or of construction), and reaches 0 only when more than
\* 5000 ms have passed since construction.
C12_Countdown ==
    /\ countdown = 5
    /\ [][/\ countdown' \in 0..5
          /\ countdown' \in {countdown, countdown - 1}
          /\ (countdown' < countdown /\ now' < Horizon)
                => last_count' - last_count > 1000
          /\ countdown' < 5 => now' > 1000 * (5 - countdown')]_vars

C12_Witness == countdown = 0 /\ obs.branch = "countdown" /\ now < Horizon

\* C13: a step creates at most one alien bullet, creates it more than
\* ALIEN_COOLDOWN = 1000 ms after the last one was created, and creates
\* none when no alien remains or the ship's health is zero.
C13_AlienFireRate ==
    /\ obs.alien_bullets_created \in {0, 1}
    /\ obs.alien_bullets_created = 1
        => /\ obs.alien_gap > 1000
           /\ obs.aliens_left # 0 /\ alien_group # <<>>
           /\ spaceship.health_remaining # 0

C13_Witness ==
    /\ obs.alien_bullets_created = 1 /\ obs.alien_gap > 1000
    /\ Len(alien_bullet_group) = 2

\* C14: a ship update creates at most one player bullet, creates it more
\* than PLAYER_COOLDOWN = 300 ms after the last one was created and only
\* with the fire key held, and creates none while countdown > 0 or once
\* the ship's health is <= 0.
C14_PlayerFireRate ==
    [][/\ obs'.bullets_created \in {0, 1}
       /\ obs'.bullets_created = 1
            => /\ "SPACE" \in obs'.shot_keys
               /\ obs'.player_gap > 300
               /\ countdown = 0 /\ obs'.branch = "play"
               /\ spaceship.health_remaining > 0]_vars

C14_Witness ==
    /\ obs.bullets_created = 1 /\ obs.player_gap > 300
    /\ "SPACE" \in obs.shot_keys /\ spaceship.health_remaining = 1

\* C15: after any sequence of left/right key inputs, for every width of
\* the ship's sprite, rect.left >= 0 and rect.right <= SCREEN_WIDTH = 600,
\* and the vertical position never changes.
C15_ClampedToScreen ==
    /\ spaceship.x >= 0
    /\ spaceship.x + obs.w <= 600
    /\ CenterY(spaceship, "spaceship") = 640

\* C16: once the ship's health is zero (or less), the next ship update
\* creates exactly one explosion, of size 3, and removes the ship from its
\* group; once explosion_created is set no ship update creates another one;
\* and once the ship is out of its group it stays out and its
\* health_remaining never changes again.
C16_ShipExplodesOnce ==
    [][/\ obs'.ship_spawned \in {<<>>, <<3>>}
       /\ (spaceship.health_remaining <= 0 /\ ~spaceship.explosion_created)
             => /\ obs'.ship_spawned = <<3>>
                /\ spaceship_group' = {}
                /\ spaceship'.explosion_created
       /\ spaceship.explosion_created => obs'.ship_spawned = <<>>
       /\ obs'.ship_spawned = <<3>> => spaceship.health_remaining <= 0
       /\ spaceship_group = {}
             => /\ spaceship_group' = {}
                /\ spaceship'.health_remaining = spaceship.health_remaining]_vars

C16_Witness ==
    /\ spaceship_group = {}
    /\ obs.ship_spawned = <<3>>
    /\ spaceship.health_remaining <= 0
    /\ spaceship.explosion_created

\* C17: game_over tells the game's state at every step: 0 while aliens
\* remain and the ship has health, 1 once no alien remains (won), -1 once
\* the ship's health is gone (lost).
C17_GameOverIndicatesState ==
    LET won == alien_group = <<>>
        lost == spaceship.health_remaining <= 0
    IN  /\ (~won /\ ~lost) => game_over = 0
        /\ (won /\ ~lost) => game_over = 1
        /\ (lost /\ ~won) => game_over = -1

\* C18: right after construction (no play_step made yet) countdown = 5,
\* game_over = 0, end_timer = 0, the ship's centre is (300, 640), its
\* health_remaining = health_start = 3, it is the only member of the ship
\* group, and the player-bullet, alien-bullet and explosion groups are empty.
C18_AfterConstruction ==
    obs.branch = "init" =>
        /\ countdown = 5
        /\ game_over = 0
        /\ end_timer = 0
        /\ CenterX(spaceship, "spaceship") = 300
        /\ CenterY(spaceship, "spaceship") = 640
        /\ spaceship.health_remaining = 3
        /\ spaceship.health_start = 3
        /\ spaceship_group = {"spaceship"}
        /\ bullet_group = <<>>
        /\ alien_bullet_group = <<>>
        /\ explosion_group = <<>>

C18_Witness == obs.branch = "init" /\ pc = "run" /\ now \in StartTicks

\* C19: starting from move_counter 0 and direction +1, every maximal run
\* of updates with the same move_direction is 75 updates long.
C19_RunsOf75 == obs.done \in {0, 75}

\* C20: an explosion that has had n updates shows frame n \div 3: the
\* frames 0,1,2,3,4 in order, each held for exactly 3 updates, never above
\* 4; it is still in its group after 14 updates and is removed by its 15th
\* update, never by an earlier or later one.
C20_AnimationRunsToCompletion ==
    /\ Len(obs.updates) = Len(explosion_group)
    /\ \A i \in 1..Len(explosion_group) :
          /\ obs.updates[i] \in 0..14
          /\ explosion_group[i].index = obs.updates[i] \div 3
          /\ explosion_group[i].index \in 0..4
    /\ obs.removed \subseteq {15}

C20_Witness ==
    /\ obs.removed = {15}
    /\ explosion_group # <<>>
    /\ explosion_group[1].index = 4

\* C21: every update of a player bullet changes its y by exactly -5 and
\* every update of an alien bullet by exactly +4, x never changes; a
\* player bullet whose y drops below -10 and an alien bullet whose bottom
\* passes SCREEN_HEIGHT + 10 = 810 leaves its group in that very update, so
\* no live player bullet has y < -10 and no live alien bullet has
\* bottom > 810.
C21_BulletsFlyStraightAndLeave ==
    /\ obs.kind = "bullet" =>
          /\ obs.after.y = obs.before.y - 5
          /\ obs.after.x = obs.before.x
          /\ obs.after.y < -10 => obs.removed
    /\ obs.kind = "alien_bullet" =>
          /\ obs.after.y = obs.before.y + 4
          /\ obs.after.x = obs.before.x
          /\ Bottom(obs.after, "alien_bullet") > 810 => obs.removed
    /\ \A i \in 1..Len(bullet_group) : bullet_group[i].y >= -10
    /\ \A i \in 1..Len(alien_bullet_group) :
          Bottom(alien_bullet_group[i], "alien_bullet") <= 810

C21_Witness ==
    /\ obs.gone_off = {"bullet", "alien_bullet"}
    /\ obs.kind = "alien_bullet"
    /\ obs.removed
    /\ Bottom(obs.after, "alien_bullet") > 810

\* C22: every play_step of active play (countdown 0, aliens remaining and
\* ship health > 0 before and after the step) leaves end_timer at the
\* clock's current reading; and a step that starts in a terminal state (no
\* alien left, or no health left) leaves end_timer as it was.
C22_EndTimerResetInActivePlay ==
    [][/\ (/\ countdown = 0 /\ pc' = "run"
           /\ alien_group # <<>> /\ alien_group' # <<>>
           /\ spaceship.health_remaining > 0 /\ spaceship'.health_remaining > 0)
          => end_timer' = now'
       /\ (/\ countdown = 0 /\ now' < Horizon
           /\ (alien_group = <<>> \/ spaceship.health_remaining <= 0))
          => end_timer' = end_timer]_vars

\* C23: a play_step with countdown > 0 leaves the ship's position and
\* health, the aliens (positions and membership) and both bullet groups as
\* they were, creates no bullet and returns False; of the game's variables
\* only countdown, last_count, end_timer and the explosion group may change
\* (the two shot timestamps keep their age on the clock).
C23_NoGameplayBeforeZero ==
    [][countdown > 0 =>
          /\ spaceship'.x = spaceship.x /\ spaceship'.y = spaceship.y
          /\ spaceship'.health_remaining = spaceship.health_remaining
          /\ spaceship'.health_start = spaceship.health_start
          /\ spaceship'.explosion_created = spaceship.explosion_created
          /\ alien_group' = alien_group
          /\ bullet_group' = bullet_group
          /\ alien_bullet_group' = alien_bullet_group
          /\ spaceship_group' = spaceship_group
          /\ game_over' = game_over /\ ending_music' = ending_music
          /\ obs'.bullets_created = 0 /\ obs'.alien_bullets_created = 0
          /\ ~obs'.shot /\ obs'.fired = "no"
          /\ ~obs'.ret /\ pc' = "run"
          /\ now' < Horizon =>
                /\ Age(last_alien_shot', ALIEN_COOLDOWN, now')
                      = Age(last_alien_shot, ALIEN_COOLDOWN, now')
                /\ Age(spaceship'.last_shot, PLAYER_COOLDOWN, now')
                      = Age(spaceship.last_shot, PLAYER_COOLDOWN, now')]_vars

C23_Witness ==
    /\ obs.branch = "countdown"
    /\ countdown = 3
    /\ now > 2000
    /\ Len(alien_group) = 25
    /\ bullet_group = <<>> /\ alien_bullet_group = <<>>

\* C24: a step plays at most one end sound, and only with ending_music
\* True, which it then sets to False; once ending_music is False no step
\* plays an end sound and ending_music stays False (so at most one end
\* sound is played over a run); and the first step that reports a win or a
\* loss (ending_music still True) plays it.
C24_EndSoundOnce ==
    [][/\ obs'.sound \in {"none", "win", "loss"}
       /\ obs'.sound # "none" =>
             /\ ending_music /\ ~ending_music'
             /\ obs'.win \/ obs'.loss
       /\ ~ending_music => (obs'.sound = "none" /\ ~ending_music')
       /\ (ending_music /\ (obs'.win \/ obs'.loss)) => obs'.sound # "none"
       /\ ending_music' => ~(obs'.win \/ obs'.loss)]_vars

C24_Witness ==
    /\ ~ending_music
    /\ obs.sound = "none"
    /\ obs.win \/ obs.loss
    /\ pc = "run"

\* C25: all live aliens have the same move_counter and move_direction,
\* the distance between any two of them is what it was when they were
\* spawned, and each alien is never more than 76 px to the left or right
\* of its spawn position (and at its spawn height).
C25_LockstepNoDrift ==
    /\ Len(obs.spawn) = Len(alien_group)
    /\ \A i \in 1..Len(alien_group) :
          /\ alien_group[i].x - obs.spawn[i].x \in -76..76
          /\ alien_group[i].y = obs.spawn[i].y
          /\ \A j \in 1..Len(alien_group) :
                /\ alien_group[i].move_counter = alien_group[j].move_counter
                /\ alien_group[i].move_direction = alien_group[j].move_direction
                /\ alien_group[i].x - alien_group[j].x
                      = obs.spawn[i].x - obs.spawn[j].x

C25_Witness ==
    /\ Len(alien_group) = 2
    /\ alien_group[1].x - obs.spawn[1].x = -76
    /\ alien_group[2].x - obs.spawn[2].x = -76
    /\ alien_group[1].move_direction = 1

\* C26: the step in which the last alien is removed never reports the
\* win; a step reports the win exactly when the alien group was already
\* empty before it, so the win is first reported by the following step;
\* whereas the step in which the ship's health comes down to 0 reports the
\* loss itself.
C26_WinLateLossAtOnce ==
    [][countdown = 0 =>
          /\ (alien_group # <<>> /\ alien_group' = <<>>) => ~obs'.win
          /\ obs'.win <=> alien_group = <<>>
          /\ (spaceship.health_remaining > 0 /\ spaceship'.health_remaining = 0)
                => obs'.loss]_vars

C26_Witness ==
    /\ obs.win /\ ~obs.loss
    /\ obs.sound = "win"
    /\ obs.aliens_left = 0
    /\ alien_group = <<>>

\* C27: the first play frame (the first step taken with countdown 0: all
\* aliens alive, full health) always creates one alien bullet, however
\* soon it follows the countdown: the cooldown has run since construction.
C27_FirstFrameFires ==
    [][(countdown = 0 /\ obs.branch = "countdown") =>
          /\ Len(alien_group) = 25
          /\ spaceship.health_remaining = 3
          /\ alien_bullet_group = <<>>
          /\ obs'.branch = "play"
          /\ obs'.fired = "yes"
          /\ obs'.alien_bullets_created = 1
          /\ Len(alien_bullet_group') = 1
          /\ obs'.alien_gap > 1000]_vars

C27_Witness ==
    /\ obs.branch = "play" /\ obs.fired = "yes"
    /\ last_alien_shot = now
    /\ Len(alien_group) = 25
    /\ Len(alien_bullet_group) = 1
    /\ spaceship.health_remaining = 3

\* C28: every play_step that returns False has called
\* pygame.display.update() exactly once and self.clock.tick(FPS) exactly
\* once, in the countdown, in active play and in the terminal states alike.
C28_ThrottledAndRefreshedOnce ==
    (obs.branch # "init" /\ ~obs.ret /\ pc = "run") =>
        (obs.display_updates = 1 /\ obs.clock_ticks = 1)

====
